---- MODULE Spec2Model ----
(***************************************************************************)
(* The hangman workspace: the strategic solver of hangman-client           *)
(* (solver/strategic.rs), the client loop (hangman-client/src/main.rs),    *)
(* the game rules (hangman/src/lib.rs) and the update handler of           *)
(* hangman-server.                                                         *)
(*                                                                         *)
(* Bytes (u8) are integers, strings are sequences of bytes, Option<u8> is  *)
(* a byte or None, a HashSet<u8> is a set of bytes.                        *)
(***************************************************************************)
EXTENDS Integers, Sequences, FiniteSets, TLC

(* ------------------------------------------------------------------ *)
(* Bounds of the model                                                 *)
(* ------------------------------------------------------------------ *)

\* next_letter calls made on one solver instance
MaxCalls == 3
\* next_letter calls made on each of two solvers run side by side
MaxPairCalls == 2
\* next_letter calls the client makes in one game
MaxTurns == 4
\* distinct raw values one draw of the random source takes
RngRange == 3

\* the number of turns of a client whose dictionary holds the secret word
MaxMatchTurns == 12

\* the number of requests the concurrent server receives
MaxRequests == 4

(* ------------------------------------------------------------------ *)
(* Bytes                                                               *)
(* ------------------------------------------------------------------ *)

\* Option<u8>: None, or Some(u)
None == <<>>
Some(u) == <<u>>

Ascii ==
  [c \in {"A", "B", "C", "D", "E", "F", "G", "H", "I", "J", "K", "L", "M",
          "N", "O", "P", "Q", "R", "S", "T", "U", "V", "W", "X", "Y", "Z",
          "a", "p", "l", "e", "*", ".", "-", "1", "~"} |->
     CASE c = "A" -> 65 [] c = "B" -> 66 [] c = "C" -> 67 [] c = "D" -> 68
       [] c = "E" -> 69 [] c = "F" -> 70 [] c = "G" -> 71 [] c = "H" -> 72
       [] c = "I" -> 73 [] c = "J" -> 74 [] c = "K" -> 75 [] c = "L" -> 76
       [] c = "M" -> 77 [] c = "N" -> 78 [] c = "O" -> 79 [] c = "P" -> 80
       [] c = "Q" -> 81 [] c = "R" -> 82 [] c = "S" -> 83 [] c = "T" -> 84
       [] c = "U" -> 85 [] c = "V" -> 86 [] c = "W" -> 87 [] c = "X" -> 88
       [] c = "Y" -> 89 [] c = "Z" -> 90
       [] c = "a" -> 97 [] c = "p" -> 112 [] c = "l" -> 108 [] c = "e" -> 101
       [] c = "*" -> 42 [] c = "." -> 46 [] c = "-" -> 45 [] c = "1" -> 49
       \* "~" stands for a byte outside ASCII (the first byte of a UTF-8 sequence)
       [] c = "~" -> 195]

\* the byte string of a tuple of characters
Str(cs) == [i \in 1..Len(cs) |-> Ascii[cs[i]]]

\* b'A'..=b'Z'
UpperLetters == Ascii["A"]..Ascii["Z"]

\* u8::to_ascii_uppercase
to_ascii_uppercase(u) == IF u >= 97 /\ u <= 122 THEN u - 32 ELSE u

\* str::is_ascii
is_ascii(w) == \A i \in 1..Len(w) : w[i] < 128

\* the bytes of a string, as a set
Bytes(w) == {w[i] : i \in 1..Len(w)}

(* ------------------------------------------------------------------ *)
(* Loading the dictionary: StrategicSolverFactory::from_words          *)
(* ------------------------------------------------------------------ *)

\* Ord for str: lexicographic on bytes, a proper prefix first
RECURSIVE StrLess(_, _)
StrLess(a, b) ==
  IF b = <<>> THEN FALSE
  ELSE IF a = <<>> THEN TRUE
  ELSE IF a[1] # b[1] THEN a[1] < b[1]
  ELSE StrLess(Tail(a), Tail(b))

\* one word put at its place in a sorted vector
RECURSIVE Insert(_, _)
Insert(w, sorted) ==
  IF sorted = <<>> THEN <<w>>
  ELSE IF StrLess(sorted[1], w) THEN <<sorted[1]>> \o Insert(w, Tail(sorted))
  ELSE <<w>> \o sorted

\* Vec::sort_unstable (equal strings are indistinguishable, so the result is unique)
RECURSIVE sort_unstable(_)
sort_unstable(v) ==
  IF v = <<>> THEN <<>> ELSE Insert(v[1], sort_unstable(Tail(v)))

\* word.len() >= 5 && word.is_ascii()
Accepted(line) == Len(line) >= 5 /\ is_ascii(line)

\* word.to_ascii_uppercase()
Uppercased(line) == [i \in 1..Len(line) |-> to_ascii_uppercase(line[i])]

\* filter_map over the lines of the file
RECURSIVE filter_map(_)
filter_map(lines) ==
  IF lines = <<>> THEN <<>>
  ELSE IF Accepted(lines[1]) THEN <<Uppercased(lines[1])>> \o filter_map(Tail(lines))
  ELSE filter_map(Tail(lines))

from_words(lines) == sort_unstable(filter_map(lines))

(* ------------------------------------------------------------------ *)
(* The game rules: hangman/src/lib.rs                                  *)
(* ------------------------------------------------------------------ *)

\* the wrong guesses a game allows
Guesses == 7

\* is_lost with the comparison off by one
is_lost_late(game) == Guesses - Cardinality(game.incorrect) < 0

\* Game::is_lost
is_lost(game) == Guesses - Cardinality(game.incorrect) <= 0

\* is_won that never reports a win
is_won_never(game) == \A i \in 1..Len(game.word) : game.word[i] \in {}

\* Game::is_won
is_won(game) == \A i \in 1..Len(game.word) : game.word[i] \in game.correct

\* Game::guesses_remaining
guesses_remaining_of(game) ==
  LET left == Guesses - Cardinality(game.incorrect) IN IF left > 0 THEN left ELSE 0

\* masked_word showing the letters that were not guessed
masked_word_inverted(game) ==
  [i \in 1..Len(game.word) |->
     IF game.word[i] \in game.correct THEN Ascii["*"] ELSE game.word[i]]

\* Game::masked_word
masked_word(game) ==
  [i \in 1..Len(game.word) |->
     IF game.word[i] \in game.correct THEN game.word[i] ELSE Ascii["*"]]

(* ------------------------------------------------------------------ *)
(* The strategic solver: hangman-client/src/solver/strategic.rs        *)
(* ------------------------------------------------------------------ *)

\* build_expr leaving the '*' of the masked word in the pattern
build_expr_unconverted(word) ==
  [i \in 1..Len(word) |-> to_ascii_uppercase(word[i])]

\* build_expr: the pattern handed to Regex::new, one pattern byte per mask byte.
\* Over the bytes of the model (letters, digits, '-', '.') every pattern compiles.
build_expr(word) ==
  [i \in 1..Len(word) |->
     IF word[i] = Ascii["*"] THEN Ascii["."] ELSE to_ascii_uppercase(word[i])]

\* one pattern byte against one text byte: '.' is any byte but a line feed, any
\* other byte of the model is a literal
MatchesAt(p, c) == IF p = Ascii["."] THEN c # 10 ELSE p = c

\* Regex::is_match: the pattern has no anchors, so a match may start anywhere
is_match(expr, text) ==
  \E start \in 0..(Len(text) - Len(expr)) :
    \A i \in 1..Len(expr) : MatchesAt(expr[i], text[start + i])

\* Shape::filter with the disallowed letters left out of the test
filter_shape_only(expr, disallow, text) == is_match(expr, text)

\* Shape::filter
filter(expr, disallow, text) ==
  is_match(expr, text) /\ \A i \in 1..Len(text) : text[i] \notin disallow

\* characterize putting an absent letter into disallow alone
characterize_absent_unsubmitted(st, word) ==
  IF st.uncharacterized = None THEN st
  ELSE LET u == st.uncharacterized[1] IN
       IF \E i \in 1..Len(word) : word[i] = u
       THEN [st EXCEPT !.uncharacterized = None, !.submitted = @ \cup {u}]
       ELSE [st EXCEPT !.uncharacterized = None, !.disallow = @ \cup {u}]

\* SolverState::characterize
characterize(st, word) ==
  IF st.uncharacterized = None THEN st
  ELSE LET u == st.uncharacterized[1] IN
       [st EXCEPT !.uncharacterized = None,
                  !.submitted = @ \cup {u},
                  !.disallow = IF \E i \in 1..Len(word) : word[i] = u
                               THEN @ ELSE @ \cup {u}]

\* dictionary.iter().filter(|text| expr.filter(text))
RECURSIVE filtered(_, _, _)
filtered(dict, expr, disallow) ==
  IF dict = <<>> THEN <<>>
  ELSE IF filter(expr, disallow, dict[1])
       THEN <<dict[1]>> \o filtered(Tail(dict), expr, disallow)
       ELSE filtered(Tail(dict), expr, disallow)

\* flat_map(|word| word.bytes())
RECURSIVE flat_map(_)
flat_map(words) ==
  IF words = <<>> THEN <<>> ELSE words[1] \o flat_map(Tail(words))

\* the loop filling the frequency map: *frequency.entry(u).or_insert(0) += 1
RECURSIVE tally(_)
tally(bytes) ==
  IF bytes = <<>> THEN << >>
  ELSE LET frequency == tally(Tail(bytes))
           u == bytes[1]
       IN IF u \in DOMAIN frequency
          THEN [frequency EXCEPT ![u] = @ + 1]
          ELSE (u :> 1) @@ frequency

\* the entries of the map with the submitted letters left in
entries_unfiltered(frequency, submitted) ==
  {<<u, frequency[u]>> : u \in DOMAIN frequency}

\* frequency.into_iter().filter(|entry| !submitted.contains(&entry.0)): the
\* entries <<byte, count>> that are kept, as a set
entries(frequency, submitted) ==
  {<<u, frequency[u]>> : u \in (DOMAIN frequency) \ submitted}

\* every vector holding each element of a set once
RECURSIVE Orders(_)
Orders(S) ==
  IF S = {} THEN {<<>>}
  ELSE UNION {{<<x>> \o rest : rest \in Orders(S \ {x})} : x \in S}

\* by_frequency after sort_unstable_by_key(Reverse(count)): the map yields its
\* entries in an order the hasher decides and the sort is unstable, so the vector
\* is any arrangement of the entries with the counts in descending order
RECURSIVE by_frequency(_)
by_frequency(es) ==
  IF es = {} THEN {<<>>}
  ELSE LET top == {e \in es : \A d \in es : d[2] <= e[2]} IN
       {first \o rest : first \in Orders(top), rest \in by_frequency(es \ top)}

\* first_rank_by_key letting every item pass, whatever its key
first_rank_by_key_all(items) == [i \in 1..Len(items) |-> items[i][1]]

\* first_rank_by_key(.., |frequency| frequency.1).map(|(value, _)| value): the key
\* of the first item is kept and every item with that key passes
first_rank_by_key(items) ==
  IF items = <<>> THEN <<>>
  ELSE LET kept == SelectSeq(items, LAMBDA item : item[2] = items[1][2]) IN
       [i \in 1..Len(kept) |-> kept[i][1]]

\* the index a draw picks among len items: the raw value r of the draw is scaled
\* into 0..len-1 by a widening multiply
gen_index(r, len) == (r * len) \div RngRange

\* the selection falling back on b'a'..=b'z'
selected_lowercase(first_rank, r) ==
  IF first_rank # <<>>
  THEN first_rank[gen_index(r, Len(first_rank)) + 1]
  ELSE Ascii["a"] + gen_index(r, Cardinality(UpperLetters))

\* first_rank.choose(rng).unwrap_or_else(|| (b'A'..=b'Z').choose(rng).unwrap())
selected(first_rank, r) ==
  IF first_rank # <<>>
  THEN first_rank[gen_index(r, Len(first_rank)) + 1]
  ELSE Ascii["A"] + gen_index(r, Cardinality(UpperLetters))

\* SolverState::default
default == [submitted |-> {}, uncharacterized |-> None, disallow |-> {}, rng |-> 0]

\* the filter reading disallow as it was before the previous letter is characterized
candidates_stale(dict, st, w) == filtered(dict, build_expr(w), st.disallow)

\* SolverState::next up to the filter: the previous letter is characterized, then
\* the dictionary is filtered by the shape of the word and the disallowed letters
candidates(dict, st, w) ==
  filtered(dict, build_expr(w), characterize(st, w).disallow)

\* SolverState::next up to the sort: the vectors by_frequency may be
ranked(dict, st, w) ==
  by_frequency(entries(tally(flat_map(candidates(dict, st, w))),
                       characterize(st, w).submitted))

\* SolverState::next up to first_rank: the vectors first_rank may be
first_ranks(dict, st, w) ==
  {first_rank_by_key(sorted) : sorted \in ranked(dict, st, w)}

\* SolverState::next returning the selection without recording it
next_unrecorded(st, w, first, r) ==
  [characterize(st, w) EXCEPT !.rng = @ + 1]

\* SolverState::next: the solver state it leaves, given first_rank and the raw
\* value of the draw
next(st, w, first, r) ==
  [characterize(st, w) EXCEPT
     !.uncharacterized = Some(selected(first, r)),
     !.rng = @ + 1]

(* ------------------------------------------------------------------ *)
(* Inputs                                                              *)
(* ------------------------------------------------------------------ *)

APPLE == Str(<<"A", "P", "P", "L", "E">>)
BERRY == Str(<<"B", "E", "R", "R", "Y">>)
GRAPE == Str(<<"G", "R", "A", "P", "E">>)

\* the dictionary files: each a sequence of lines
WordLists ==
  { <<>>,
    \* a lower-case line and a line of four bytes
    << GRAPE, BERRY, Str(<<"a", "p", "p", "l", "e">>), Str(<<"P", "E", "A", "R">>) >>,
    \* a line of six bytes and a line that is not ASCII
    << Str(<<"G", "R", "A", "P", "E", "S">>), APPLE, Str(<<"~", "P", "P", "L", "E">>) >>,
    \* a line with bytes that are no letters
    << Str(<<"A", "-", "A", "-", "1">>) >>,
    \* a line of one letter repeated
    << Str(<<"E", "E", "E", "E", "E">>) >>,
    \* a line holding the byte '*'
    << Str(<<"*", "*", "A", "*", "*">>) >> }

\* the secret words the masked words come from, and the letters revealed
Secrets == {APPLE, BERRY}
Reveals == {{}, {Ascii["P"]}, {Ascii["E"]}, {Ascii["A"], Ascii["L"]}, {Ascii["R"]}}

\* the masked words handed to the solver: upper-case letters and '*'
MaskedWords ==
  {masked_word([word |-> s, correct |-> c, incorrect |-> {}]) :
     s \in Secrets, c \in Reveals}

\* the word file of the server: each a line
ServerLines == << Str(<<"a", "p", "p", "l", "e">>), BERRY, Str(<<"P", "E", "A", "R">>) >>

\* a line of n times the letter c
Repeated(c, n) == [i \in 1..n |-> Ascii[c]]

\* dictionary files of a client that holds the words of the server
MatchWordLists ==
  { << GRAPE, BERRY, Str(<<"a", "p", "p", "l", "e">>), Str(<<"P", "E", "A", "R">>) >>,
    \* with a longer line
    << Str(<<"G", "R", "A", "P", "E", "S">>), APPLE, BERRY >>,
    \* with a line holding the byte '*'
    << Str(<<"*", "*", "A", "*", "*">>), APPLE, BERRY >>,
    \* with seven lines of letters that APPLE does not have
    << APPLE, Repeated("C", 8), Repeated("D", 7), Repeated("F", 7), Repeated("G", 6),
       Repeated("H", 6), Repeated("I", 5), Repeated("J", 5) >>,
    \* with six such lines
    << APPLE, Repeated("C", 7), Repeated("D", 7), Repeated("F", 6), Repeated("G", 6),
       Repeated("H", 5), Repeated("I", 5) >> }

\* the word files of the servers such a client plays against
MatchServerLines == { ServerLines, << APPLE >> }

\* the lines of the word file of a server that serves several games
RegistryLines == << Str(<<"M", "A", "M", "M", "A">>), Str(<<"E", "E", "R", "I", "E">>) >>

\* the game ids that requests name; an id with no game in the map is unknown
Ids == {"g1", "g2"}

\* the letter field of the update requests sent for an id: the letters of the
\* words, letters beside them, a lowercase letter, and fields that are not one
\* ASCII character (empty, two characters, one two-byte character)
RequestLetters(id) ==
  IF id = "g1"
  THEN {Str(<<c>>) : c \in {"M", "A", "E", "R", "I", "Z", "X", "Q", "K", "a"}}
         \cup {<<>>, Str(<<"E", "E">>), Str(<<"~", "~">>)}
  ELSE {Str(<<"A">>), <<>>}

\* the letter field of the requests sent to play_game of the root crate
PlayLetters ==
  {Str(<<c>>) : c \in {"M", "A", "a", "E", "Z", "X"}} \cup {<<>>, Str(<<"E", "E">>)}

\* the workers of the server that run handlers at the same time
Workers == {"w1", "w2"}

\* the requests the concurrent server receives
Requests ==
  {[op |-> "create_game"]}
    \cup {[op |-> "read_game", id |-> id] : id \in Ids}
    \cup {[op |-> "update_game", id |-> id, letter |-> letter] :
            id \in Ids, letter \in {Str(<<"A">>), Str(<<"a">>), Str(<<"Z">>), <<>>}}

(* ------------------------------------------------------------------ *)
(* The server: hangman-server/src/main.rs                              *)
(* ------------------------------------------------------------------ *)

\* read_words: the lines that are ASCII and at least five bytes, upper-cased, in
\* the order of the file
read_words(lines) == filter_map(lines)

\* build_game, given the word words.choose(rng) picked
build_game(w) == [word |-> w, correct |-> {}, incorrect |-> {}]

\* CreateGameResponse::new
CreateGameResponse(game) ==
  [kind |-> "Create", word |-> masked_word(game), guesses |-> guesses_remaining_of(game)]

\* UpdateGameResponse::update
update(game) ==
  [kind |-> "Update", word |-> masked_word(game), guesses |-> guesses_remaining_of(game)]

\* UpdateGameResponse::win
win(w, message) == [kind |-> "Finalize", victory |-> TRUE, message |-> message, word |-> w]

\* UpdateGameResponse::lose
lose(w, message) == [kind |-> "Finalize", victory |-> FALSE, message |-> message, word |-> w]

\* update_game filing every new guess under incorrect
update_game_all_missed(game, letter) ==
  IF Len(letter) # 1 \/ ~ is_ascii(letter)
  THEN [game |-> game, response |-> [kind |-> "IllegalGuess"]]
  ELSE IF is_lost(game)
  THEN [game |-> game, response |-> lose(game.word, "Better luck next time!")]
  ELSE IF is_won(game)
  THEN [game |-> game,
        response |-> win(game.word, "I said you won! Stop rubbing it in. >.<")]
  ELSE LET guess == to_ascii_uppercase(letter[1]) IN
    IF guess \in game.correct \/ guess \in game.incorrect
    THEN [game |-> game, response |-> [kind |-> "DuplicateGuess"]]
    ELSE LET miss == [game EXCEPT !.incorrect = @ \cup {guess}] IN
         [game |-> miss,
          response |->
            IF is_lost(miss)
            THEN lose(miss.word, "Sorry, friend. You've been hanged!")
            ELSE update(miss)]

\* update_game on the game the id names: the game it leaves and the response.
\* An Err(..) is answered with status 400 (ResponseError for Error).
update_game(game, letter) ==
  IF Len(letter) # 1 \/ ~ is_ascii(letter)
  THEN [game |-> game, response |-> [kind |-> "IllegalGuess"]]
  ELSE IF is_lost(game)
  THEN [game |-> game, response |-> lose(game.word, "Better luck next time!")]
  ELSE IF is_won(game)
  THEN [game |-> game,
        response |-> win(game.word, "I said you won! Stop rubbing it in. >.<")]
  ELSE LET guess == to_ascii_uppercase(letter[1]) IN
    IF guess \in game.correct \/ guess \in game.incorrect
    THEN [game |-> game, response |-> [kind |-> "DuplicateGuess"]]
    ELSE IF \E i \in 1..Len(game.word) : game.word[i] = guess
    THEN LET hit == [game EXCEPT !.correct = @ \cup {guess}] IN
         [game |-> hit,
          response |->
            IF is_won(hit)
            THEN IF guesses_remaining_of(hit) >= 3
                 THEN win(hit.word, "FLAWLESS VICTORY!")
                 ELSE win(hit.word, "Victory is yours!")
            ELSE update(hit)]
    ELSE LET miss == [game EXCEPT !.incorrect = @ \cup {guess}] IN
         [game |-> miss,
          response |->
            IF is_lost(miss)
            THEN lose(miss.word, "Sorry, friend. You've been hanged!")
            ELSE update(miss)]

\* read_game on the game the id names
read_game(game) ==
  IF is_lost(game) THEN lose(game.word, "Better luck next time!")
  ELSE IF is_won(game) THEN win(game.word, "I said you won! Stop rubbing it in. >.<")
  ELSE update(game)

\* the guess of an update request is one ASCII character
legal(letter) == Len(letter) = 1 /\ is_ascii(letter)

\* update_game looking the id up before it checks the letter
update_game_in_lookup_first(db, id, letter) ==
  IF db[id] = None
  THEN [db |-> db, response |-> [kind |-> "GameNotFound"]]
  ELSE [db |-> [db EXCEPT ![id] = update_game(db[id], letter).game],
        response |-> update_game(db[id], letter).response]

\* update_game on the map of games: the map it leaves and the response. The
\* letter is checked first, then the id is looked up.
update_game_in(db, id, letter) ==
  IF ~ legal(letter)
  THEN [db |-> db, response |-> [kind |-> "IllegalGuess"]]
  ELSE IF db[id] = None
  THEN [db |-> db, response |-> [kind |-> "GameNotFound"]]
  ELSE [db |-> [db EXCEPT ![id] = update_game(db[id], letter).game],
        response |-> update_game(db[id], letter).response]

(* ------------------------------------------------------------------ *)
(* The server of the root crate: src/main.rs                           *)
(* ------------------------------------------------------------------ *)

\* PlayResponse::Continue(GameResponse { .. })
Continue(game) ==
  [kind |-> "Continue", word |-> masked_word(game), guesses |-> guesses_remaining_of(game)]

\* PlayResponse::Victory, Defeat and Illegal
Victory(message) == [kind |-> "Victory", message |-> message]
Defeat(message) == [kind |-> "Defeat", message |-> message]
Illegal(message) == [kind |-> "Illegal", message |-> message]

\* play_game on the game the request's id names: the game it leaves and the
\* response
play_game(game, letter) ==
  IF is_lost(game)
  THEN [game |-> game, response |-> Defeat("Better luck next time!")]
  ELSE IF is_won(game)
  THEN [game |-> game, response |-> Victory("I said you won! Stop rubbing it in. >.<")]
  ELSE IF Len(letter) # 1
  THEN [game |-> game,
        response |-> Illegal("Your guess must consist of a single letter.")]
  ELSE LET guess == to_ascii_uppercase(letter[1]) IN
    IF guess \in game.correct
    THEN [game |-> game, response |-> Illegal("Your guesses must be unique.")]
    ELSE IF \E i \in 1..Len(game.word) : game.word[i] = guess
    THEN LET hit == [game EXCEPT !.correct = @ \cup {guess}] IN
         [game |-> hit,
          response |->
            IF is_won(hit)
            THEN IF guesses_remaining_of(hit) >= 3
                 THEN Victory("FLAWLESS VICTORY!")
                 ELSE Victory("Victory is yours!")
            ELSE Continue(hit)]
    ELSE LET miss == [game EXCEPT !.incorrect = @ \cup {guess}] IN
         [game |-> miss,
          response |->
            IF is_lost(miss)
            THEN Defeat("Sorry, friend. You've been hanged!")
            ELSE Continue(miss)]

\* Mutex::lock returns at once
free_unchecked(mutex) == TRUE

\* Mutex::lock returns when no handler holds the guard
free(mutex) == mutex = None

(* ------------------------------------------------------------------ *)
(* State                                                               *)
(* ------------------------------------------------------------------ *)

VARIABLES
  dictionary,           \* StrategicSolverFactory.dictionary
  state,                \* IntoStrategicSolver.state
  state2,               \* the state of a second solver built from the same dictionary
  word,                 \* the masked word of the latest next_letter call
  filtered_dictionary,  \* the words that passed the filter in the latest call
  first_rank,           \* first_rank of the latest call
  returned,             \* the letters next_letter returned, in order
  returned2,            \* the letters the second solver returned, in order
  pc,                   \* where run of the client stands
  guesses_remaining,    \* guesses_remaining of run
  request,              \* UpdateGameRequest.letter of the request under way
  response,             \* the latest response of the server
  word_list,            \* AppStateWithGameDb.word_list
  game,                 \* the Game of the client's id in the server's map
  games,                \* AppStateWithGameDb.shared.1, None where the map has no entry
  served,               \* the request the server handled last
  lock,                 \* the holder of the guard of AppStateWithGameDb.shared
  workers,              \* per worker: the request it handles and where its handler stands
  received              \* the number of requests received

solver_vars == <<dictionary, state, word, filtered_dictionary, first_rank, returned>>
pair_vars == <<state2, returned2>>
client_vars == <<pc, guesses_remaining, request>>
server_vars == <<word_list, game>>
registry_vars == <<games, served>>
worker_vars == <<lock, workers, received>>
\* a worker with no request
idle == [pc |-> "idle", request |-> [op |-> "none"], seen |-> None, result |-> [kind |-> "None"]]
vars == <<solver_vars, pair_vars, client_vars, response, server_vars, registry_vars, worker_vars>>

(* ------------------------------------------------------------------ *)
(* One solver, any sequence of masked words                            *)
(* ------------------------------------------------------------------ *)

Init ==
  /\ dictionary \in {from_words(lines) : lines \in WordLists}
  /\ state = default
  /\ state2 = default
  /\ word = <<>>
  /\ filtered_dictionary = <<>>
  /\ first_rank = <<>>
  /\ returned = <<>>
  /\ returned2 = <<>>
  /\ pc = "start"
  /\ guesses_remaining = 0
  /\ request = <<>>
  /\ response = [kind |-> "None"]
  /\ word_list = read_words(ServerLines)
  /\ game = build_game(<<>>)
  /\ games = [id \in Ids |-> None]
  /\ served = [op |-> "none"]
  /\ lock = None
  /\ workers = [w \in Workers |-> idle]
  /\ received = 0

\* Solver::next_letter for IntoStrategicSolver: r is the raw value of the draw
next_letter(w, r) ==
  /\ \E first \in first_ranks(dictionary, state, w) :
       /\ state' = next(state, w, first, r)
       /\ first_rank' = first
       /\ returned' = Append(returned, selected(first, r))
  /\ word' = w
  /\ filtered_dictionary' = candidates(dictionary, state, w)
  /\ UNCHANGED dictionary

\* a caller that hands the solver any masked word
NextLetter ==
  /\ Len(returned) < MaxCalls
  /\ \E w \in MaskedWords, r \in 0..(RngRange - 1) : next_letter(w, r)
  /\ UNCHANGED <<pair_vars, client_vars, response, server_vars, registry_vars, worker_vars>>

Next == NextLetter

Spec == Init /\ [][Next]_vars

(* ------------------------------------------------------------------ *)
(* Two solvers built from the same dictionary, fed the same words      *)
(* ------------------------------------------------------------------ *)

\* Solver::next_letter on the second solver. Both solvers start from the seed of
\* SolverState::default and draw once per call, so the same call draws the same
\* raw value r in both; each call fills a HashMap of its own.
next_letter2(w, r) ==
  \E first \in first_ranks(dictionary, state2, w) :
    /\ state2' = next(state2, w, first, r)
    /\ returned2' = Append(returned2, selected(first, r))

NextLetterPair ==
  /\ Len(returned) < MaxPairCalls
  /\ \E w \in MaskedWords, r \in 0..(RngRange - 1) :
       next_letter(w, r) /\ next_letter2(w, r)
  /\ UNCHANGED <<client_vars, response, server_vars, registry_vars, worker_vars>>

NextPair == NextLetterPair

SpecPair == Init /\ [][NextPair]_vars

(* ------------------------------------------------------------------ *)
(* The strategic client playing one game against the server            *)
(* ------------------------------------------------------------------ *)

\* run: client.get(&args.server).send()
run_get ==
  /\ pc = "start"
  /\ pc' = "get"
  /\ UNCHANGED <<solver_vars, pair_vars, guesses_remaining, request, response, server_vars, registry_vars, worker_vars>>

\* create_game: a word of the list is chosen and the game is stored
create_game ==
  /\ pc = "get"
  /\ \E i \in 1..Len(word_list) :
       /\ game' = build_game(word_list[i])
       /\ response' = CreateGameResponse(build_game(word_list[i]))
  /\ pc' = "created"
  /\ UNCHANGED <<solver_vars, pair_vars, guesses_remaining, request, word_list, registry_vars, worker_vars>>

\* run: the response is taken apart and the solver is built
run_created ==
  /\ pc = "created"
  /\ word' = response.word
  /\ guesses_remaining' = response.guesses
  /\ pc' = "loop"
  /\ UNCHANGED <<dictionary, state, filtered_dictionary, first_rank, returned,
                 pair_vars, request, response, server_vars, registry_vars, worker_vars>>

\* run, the head of the loop: the solver is asked and its letter is put
run_next_letter ==
  /\ pc = "loop"
  /\ Len(returned) < MaxTurns
  /\ \E r \in 0..(RngRange - 1) : next_letter(word, r)
  /\ request' = <<returned'[Len(returned')]>>
  /\ pc' = "sent"
  /\ UNCHANGED <<pair_vars, guesses_remaining, response, server_vars, registry_vars, worker_vars>>

\* the server handles the request
serve_update_game ==
  /\ pc = "sent"
  /\ game' = update_game(game, request).game
  /\ response' = update_game(game, request).response
  /\ pc' = "reply"
  /\ UNCHANGED <<solver_vars, pair_vars, guesses_remaining, request, word_list, registry_vars, worker_vars>>

\* run: UpdateGameResponse::Update(update)
run_update ==
  /\ pc = "reply"
  /\ response.kind = "Update"
  /\ word' = response.word
  /\ guesses_remaining' = response.guesses
  /\ pc' = "loop"
  /\ UNCHANGED <<dictionary, state, filtered_dictionary, first_rank, returned,
                 pair_vars, request, response, server_vars, registry_vars, worker_vars>>

\* run going on with the loop after UpdateGameResponse::Finalize
run_finalize_resumes ==
  /\ pc = "reply"
  /\ response.kind = "Finalize"
  /\ pc' = "loop"
  /\ UNCHANGED <<solver_vars, pair_vars, guesses_remaining, request, response, server_vars, registry_vars, worker_vars>>

\* run: UpdateGameResponse::Finalize, the loop is left
run_finalize ==
  /\ pc = "reply"
  /\ response.kind = "Finalize"
  /\ pc' = "done"
  /\ UNCHANGED <<solver_vars, pair_vars, guesses_remaining, request, response, server_vars, registry_vars, worker_vars>>

\* run: a response of status 400 that send() hands over as
\* Err(e) with e.status() == Some(BAD_REQUEST): continue, back to the head of the loop
run_continue ==
  /\ pc = "reply"
  /\ response.kind \in {"DuplicateGuess", "IllegalGuess"}
  /\ pc' = "loop"
  /\ UNCHANGED <<solver_vars, pair_vars, guesses_remaining, request, response, server_vars, registry_vars, worker_vars>>

\* run: a response of status 400 that send() hands over as Ok(response): its body
\* is no UpdateGameResponse, response.json()? returns the error and run ends
run_error ==
  /\ pc = "reply"
  /\ response.kind \in {"DuplicateGuess", "IllegalGuess"}
  /\ pc' = "failed"
  /\ UNCHANGED <<solver_vars, pair_vars, guesses_remaining, request, response, server_vars, registry_vars, worker_vars>>

NextGame ==
  \/ run_get
  \/ create_game
  \/ run_created
  \/ run_next_letter
  \/ serve_update_game
  \/ run_update
  \/ run_finalize
  \/ run_continue
  \/ run_error

SpecGame == Init /\ [][NextGame]_vars

(* ------------------------------------------------------------------ *)
(* The strategic client playing a word of its dictionary to the end    *)
(* ------------------------------------------------------------------ *)

InitMatch ==
  /\ dictionary \in {from_words(lines) : lines \in MatchWordLists}
  /\ word_list \in {read_words(lines) : lines \in MatchServerLines}
  /\ \A i \in 1..Len(word_list) : \E k \in 1..Len(dictionary) : dictionary[k] = word_list[i]
  /\ state = default
  /\ state2 = default
  /\ word = <<>>
  /\ filtered_dictionary = <<>>
  /\ first_rank = <<>>
  /\ returned = <<>>
  /\ returned2 = <<>>
  /\ pc = "start"
  /\ guesses_remaining = 0
  /\ request = <<>>
  /\ response = [kind |-> "None"]
  /\ game = build_game(<<>>)
  /\ games = [id \in Ids |-> None]
  /\ served = [op |-> "none"]
  /\ lock = None
  /\ workers = [w \in Workers |-> idle]
  /\ received = 0

\* run, the head of the loop: the solver is asked and its letter is put
match_next_letter ==
  /\ pc = "loop"
  /\ Len(returned) < MaxMatchTurns
  /\ \E r \in 0..(RngRange - 1) : next_letter(word, r)
  /\ request' = <<returned'[Len(returned')]>>
  /\ pc' = "sent"
  /\ UNCHANGED <<pair_vars, guesses_remaining, response, server_vars, registry_vars, worker_vars>>

\* the steps of run and of the server; the server answers no request of such a
\* game with status 400 (C19_CandidateNeverLost), so the two arms of run for
\* that status have no step here
NextMatch ==
  \/ run_get
  \/ create_game
  \/ run_created
  \/ match_next_letter
  \/ serve_update_game
  \/ run_update
  \/ run_finalize

\* run and the server go on as long as they have a step to take. The step of
\* the solver is possible exactly when run is at the head of its loop below the
\* turn limit, and it leaves the head of the loop: its weak fairness is that
\* run is not at the head of the loop for ever.
MatchFairness ==
  /\ WF_vars(run_get \/ create_game \/ run_created \/ serve_update_game
               \/ run_update \/ run_finalize)
  /\ []<>~(pc = "loop" /\ Len(returned) < MaxMatchTurns)

SpecMatch == InitMatch /\ [][NextMatch]_vars /\ MatchFairness

(* ------------------------------------------------------------------ *)
(* The server handling requests for the games of its map               *)
(* ------------------------------------------------------------------ *)

InitServer ==
  /\ dictionary = from_words(<<>>)
  /\ state = default
  /\ state2 = default
  /\ word = <<>>
  /\ filtered_dictionary = <<>>
  /\ first_rank = <<>>
  /\ returned = <<>>
  /\ returned2 = <<>>
  /\ pc = "start"
  /\ guesses_remaining = 0
  /\ request = <<>>
  /\ response = [kind |-> "None"]
  /\ word_list = read_words(RegistryLines)
  /\ game = build_game(<<>>)
  /\ games = [id \in Ids |-> None]
  /\ served = [op |-> "none"]
  /\ lock = None
  /\ workers = [w \in Workers |-> idle]
  /\ received = 0

\* create_game: a word of the list is chosen, the game is stored under a new id
handle_create_game(id, i) ==
  /\ games[id] = None
  /\ games' = [games EXCEPT ![id] = build_game(word_list[i])]
  /\ response' = CreateGameResponse(build_game(word_list[i]))
  /\ served' = [op |-> "create_game", id |-> id]
  /\ UNCHANGED <<solver_vars, pair_vars, client_vars, server_vars, worker_vars>>

\* read_game: the map is only read
handle_read_game(id) ==
  /\ response' = IF games[id] = None THEN [kind |-> "GameNotFound"] ELSE read_game(games[id])
  /\ served' = [op |-> "read_game", id |-> id]
  /\ UNCHANGED <<solver_vars, pair_vars, client_vars, server_vars, games, worker_vars>>

\* update_game
handle_update_game(id, letter) ==
  /\ games' = update_game_in(games, id, letter).db
  /\ response' = update_game_in(games, id, letter).response
  /\ served' = [op |-> "update_game", id |-> id, letter |-> letter]
  /\ UNCHANGED <<solver_vars, pair_vars, client_vars, server_vars, worker_vars>>

ServeCreate == \E id \in Ids, i \in 1..Len(word_list) : handle_create_game(id, i)
ServeRead == \E id \in Ids : handle_read_game(id)
ServeUpdate == \E id \in Ids : \E letter \in RequestLetters(id) : handle_update_game(id, letter)

NextServer ==
  \/ ServeCreate
  \/ ServeRead
  \/ ServeUpdate

SpecServer == InitServer /\ [][NextServer]_vars

(* ------------------------------------------------------------------ *)
(* The server running handlers at the same time                        *)
(* ------------------------------------------------------------------ *)

\* the requests under way
InFlight(op) == {w \in Workers : workers[w].pc # "idle" /\ workers[w].request.op = op}

\* a request arrives and a worker starts its handler. update_game begins with
\* the check of the letter, the other handlers with the lock.
receive(w, req) ==
  /\ workers[w].pc = "idle"
  /\ received < MaxRequests
  /\ req.op = "create_game" =>
       Cardinality({id \in Ids : games[id] # None}) + Cardinality(InFlight("create_game"))
         < Cardinality(Ids)
  /\ workers' = [workers EXCEPT ![w] =
       [idle EXCEPT !.pc = IF req.op = "update_game" THEN "check" ELSE "lock",
                    !.request = req]]
  /\ received' = received + 1
  /\ UNCHANGED <<solver_vars, pair_vars, client_vars, response, server_vars,
                 registry_vars, lock>>

\* update_game: the check of the letter, before the lock is taken
check_letter(w) ==
  /\ workers[w].pc = "check"
  /\ workers' = [workers EXCEPT ![w] =
       IF legal(workers[w].request.letter)
       THEN [@ EXCEPT !.pc = "lock"]
       ELSE [@ EXCEPT !.pc = "idle", !.result = [kind |-> "IllegalGuess"]]]
  /\ UNCHANGED <<solver_vars, pair_vars, client_vars, response, server_vars,
                 registry_vars, lock, received>>

\* data.shared.lock()
take_lock(w) ==
  /\ workers[w].pc = "lock"
  /\ free(lock)
  /\ lock' = Some(w)
  /\ workers' = [workers EXCEPT ![w].pc = "read"]
  /\ UNCHANGED <<solver_vars, pair_vars, client_vars, response, server_vars,
                 registry_vars, received>>

\* under the guard: create_game builds its game, the other handlers look the
\* id up in the map
look_up(w) ==
  /\ workers[w].pc = "read"
  /\ \E i \in 1..Len(word_list) :
       workers' = [workers EXCEPT ![w].pc = "write",
                                  ![w].seen =
                                    IF workers[w].request.op = "create_game"
                                    THEN build_game(word_list[i])
                                    ELSE games[workers[w].request.id]]
  /\ UNCHANGED <<solver_vars, pair_vars, client_vars, response, server_vars,
                 registry_vars, lock, received>>

\* under the guard: the handler changes the map as its code says for the game
\* it found, answers, and the guard is dropped with its return
complete(w) ==
  /\ workers[w].pc = "write"
  /\ LET req == workers[w].request
         seen == workers[w].seen
     IN CASE req.op = "create_game" ->
               \E id \in Ids :
                 /\ games[id] = None
                 /\ games' = [games EXCEPT ![id] = seen]
                 /\ workers' = [workers EXCEPT ![w].pc = "idle",
                                               ![w].result = CreateGameResponse(seen)]
          [] req.op = "read_game" ->
               /\ games' = games
               /\ workers' = [workers EXCEPT ![w].pc = "idle",
                     ![w].result = IF seen = None THEN [kind |-> "GameNotFound"]
                                   ELSE read_game(seen)]
          [] req.op = "update_game" ->
               /\ games' = IF seen = None THEN games
                           ELSE [games EXCEPT ![req.id] = update_game(seen, req.letter).game]
               /\ workers' = [workers EXCEPT ![w].pc = "idle",
                     ![w].result = IF seen = None THEN [kind |-> "GameNotFound"]
                                   ELSE update_game(seen, req.letter).response]
  /\ lock' = None
  /\ UNCHANGED <<solver_vars, pair_vars, client_vars, response, server_vars,
                 served, received>>

Receive == \E w \in Workers, req \in Requests : receive(w, req)
CheckLetter == \E w \in Workers : check_letter(w)
TakeLock == \E w \in Workers : take_lock(w)
LookUp == \E w \in Workers : look_up(w)
Complete == \E w \in Workers : complete(w)

NextWorkers ==
  \/ Receive
  \/ CheckLetter
  \/ TakeLock
  \/ LookUp
  \/ Complete

SpecWorkers == InitServer /\ [][NextWorkers]_vars

(* ------------------------------------------------------------------ *)
(* The server of the root crate handling requests                      *)
(* ------------------------------------------------------------------ *)

\* new_game: a word of the list is chosen, the game is stored under a new id
new_game(id, i) ==
  /\ games[id] = None
  /\ games' = [games EXCEPT ![id] = build_game(word_list[i])]
  /\ response' = Continue(build_game(word_list[i]))
  /\ served' = [op |-> "new_game", id |-> id]
  /\ UNCHANGED <<solver_vars, pair_vars, client_vars, server_vars, worker_vars>>

\* play_game: a request with an id that is not in the map is answered with
\* the NotFound error
handle_play_game(id, letter) ==
  /\ games' = IF games[id] = None THEN games
              ELSE [games EXCEPT ![id] = play_game(games[id], letter).game]
  /\ response' = IF games[id] = None THEN [kind |-> "NotFound"]
                 ELSE play_game(games[id], letter).response
  /\ served' = [op |-> "play_game", id |-> id, letter |-> letter]
  /\ UNCHANGED <<solver_vars, pair_vars, client_vars, server_vars, worker_vars>>

NewGame == \E id \in Ids, i \in 1..Len(word_list) : new_game(id, i)
PlayGame == \E id \in Ids, letter \in PlayLetters : handle_play_game(id, letter)

NextLegacy ==
  \/ NewGame
  \/ PlayGame

SpecLegacy == InitServer /\ [][NextLegacy]_vars

(* ------------------------------------------------------------------ *)
(* Properties of the solver                                            *)
(* ------------------------------------------------------------------ *)

\* the letter the latest call returned
Latest == returned[Len(returned)]

\* the letters returned before the latest call
Earlier == {returned[i] : i \in 1..(Len(returned) - 1)}

\* how often byte u occurs in a word, and in a vector of words
OccurrencesIn(u, w) == Cardinality({i \in 1..Len(w) : w[i] = u})
RECURSIVE Occurrences(_, _)
Occurrences(u, words) ==
  IF words = <<>> THEN 0
  ELSE OccurrencesIn(u, words[1]) + Occurrences(u, Tail(words))

\* the bytes of the words that passed the filter in the latest call
CandidateBytes == UNION {Bytes(filtered_dictionary[i]) : i \in 1..Len(filtered_dictionary)}

\* word w has the shape of masked word m at every position
MatchesShape(m, w) ==
  /\ Len(w) = Len(m)
  /\ \A i \in 1..Len(m) : m[i] = Ascii["*"] \/ w[i] = m[i]

\* C1 as stated: the letters returned by one solver are pairwise distinct, and the
\* letter just returned is not in disallow.
C1_NoRepeatGuesses ==
  /\ \A i, j \in 1..Len(returned) : i # j => returned[i] # returned[j]
  /\ returned # <<>> => Latest \notin state.disallow

\* C1 amended: a letter selected from a non-empty tie-break set differs from every
\* letter returned before it and is in neither submitted nor disallow; only the
\* fallback over the whole alphabet may repeat a letter.
C1_NoRepeatOutsideFallback ==
  (returned # <<>> /\ first_rank # <<>>) =>
    /\ Latest \notin Earlier
    /\ Latest \notin state.submitted
    /\ Latest \notin state.disallow

\* a second or later call selected from a non-empty tie-break set, with a letter
\* already disallowed
C1_Witness ==
  /\ Len(returned) >= 2
  /\ first_rank # <<>>
  /\ state.disallow # {}

\* C2: every letter the solver returns is one of 'A'..'Z'.
C2_ReturnedIsUpperLetter ==
  \A i \in 1..Len(returned) : returned[i] \in UpperLetters

\* C3: a dictionary word as long as the masked word passes the filter iff it
\* equals the masked word at every revealed position and has no disallowed byte.
C3_ShapeFilterEqualLength ==
  returned # <<>> =>
    \A k \in 1..Len(dictionary) :
      Len(dictionary[k]) = Len(word) =>
        ((\E i \in 1..Len(filtered_dictionary) : filtered_dictionary[i] = dictionary[k])
          <=> (/\ \A i \in 1..Len(word) :
                    word[i] # Ascii["*"] => dictionary[k][i] = word[i]
               /\ Bytes(dictionary[k]) \cap state.disallow = {}))

\* a call in which one word of the right shape passed the filter and another was
\* dropped for a disallowed letter
C3_Witness ==
  /\ returned # <<>>
  /\ filtered_dictionary # <<>>
  /\ \E k \in 1..Len(dictionary) :
       /\ MatchesShape(word, dictionary[k])
       /\ Bytes(dictionary[k]) \cap state.disallow # {}
  /\ \E k \in 1..Len(dictionary) :
       /\ Len(dictionary[k]) = Len(word)
       /\ ~ MatchesShape(word, dictionary[k])

\* C4: every word that passes the filter has the length of the masked word and
\* equals it at every revealed position.
C4_SurvivorsMatchEveryPosition ==
  \A i \in 1..Len(filtered_dictionary) : MatchesShape(word, filtered_dictionary[i])

\* C5: when a letter outside submitted occurs in a word that passed the filter, the
\* returned letter is outside submitted and no such letter occurs more often in
\* the words that passed, every occurrence counted; for APPLE, BERRY, GRAPE and a
\* first call with "*****" it is one of the most frequent letters P, E, R.
C5_MaximumFrequencySelection ==
  /\ (returned # <<>> /\ CandidateBytes \ state.submitted # {}) =>
       /\ Latest \in CandidateBytes \ state.submitted
       /\ \A u \in CandidateBytes \ state.submitted :
            Occurrences(u, filtered_dictionary) <= Occurrences(Latest, filtered_dictionary)
  /\ (/\ dictionary = <<APPLE, BERRY, GRAPE>>
      /\ Len(returned) = 1
      /\ word = Str(<<"*", "*", "*", "*", "*">>)) =>
       /\ returned[1] \in {Ascii["P"], Ascii["E"], Ascii["R"]}
       /\ returned[1] \notin {Ascii["Y"], Ascii["L"], Ascii["G"]}

\* a call after the first in which the candidates offer letters of different
\* counts, one of them submitted before
C5_Witness ==
  /\ Len(returned) >= 2
  /\ CandidateBytes \cap state.submitted # {}
  /\ \E u \in CandidateBytes \ state.submitted :
       Occurrences(u, filtered_dictionary) < Occurrences(Latest, filtered_dictionary)

\* C6: a call that finds a pending letter p moves it into submitted, adds it to
\* disallow iff p does not occur in the masked word of the call, and leaves the
\* new selection pending; the filter of the same call already excludes the words
\* holding a letter disallowed in that call.
C6_ReconcileBeforeSelection ==
  [][(returned' # returned /\ state.uncharacterized # None) =>
       LET p == state.uncharacterized[1] IN
         /\ state'.submitted = state.submitted \cup {p}
         /\ state'.disallow =
              IF p \in Bytes(word') THEN state.disallow ELSE state.disallow \cup {p}
         /\ state'.uncharacterized = Some(returned'[Len(returned')])
         /\ \A i \in 1..Len(filtered_dictionary') :
              Bytes(filtered_dictionary'[i]) \cap state'.disallow = {}
    ]_vars

\* the first returned letter was found absent in the second call, and a dictionary
\* word of the right shape holds it
C6_Witness ==
  /\ Len(returned) >= 2
  /\ returned[1] \in state.disallow
  /\ returned[1] \in state.submitted
  /\ \E k \in 1..Len(dictionary) :
       MatchesShape(word, dictionary[k]) /\ returned[1] \in Bytes(dictionary[k])

\* C7: submitted and disallow never lose a letter, and disallow is a subset of
\* submitted in every state.
C7_MonotonicHistory ==
  /\ state.disallow \subseteq state.submitted
  /\ [][/\ state.submitted \subseteq state'.submitted
         /\ state.disallow \subseteq state'.disallow
         /\ state'.disallow \subseteq state'.submitted]_vars

\* both sets have grown: one reconciled letter was present, another absent
C7_Witness ==
  /\ state.disallow # {}
  /\ state.submitted \ state.disallow # {}

\* C8: when no letter outside submitted occurs in a word that passed the filter
\* (empty dictionary, no candidate, or every candidate letter submitted), the
\* tie-break set is empty and the call returns a letter of 'A'..'Z', which it
\* leaves pending.
C8_DegenerateFallback ==
  (returned # <<>> /\ CandidateBytes \subseteq state.submitted) =>
    /\ first_rank = <<>>
    /\ Latest \in UpperLetters
    /\ state.uncharacterized = Some(Latest)

\* the fallback was taken although a word passed the filter: each of its letters
\* was submitted before
C8_Witness ==
  /\ returned # <<>>
  /\ filtered_dictionary # <<>>
  /\ CandidateBytes \subseteq state.submitted
  /\ first_rank = <<>>

\* C10: two solvers built from the same dictionary and fed the same masked words
\* return the same letters.
C10_Reproducible == returned = returned2

\* C9: after the server rejected a letter as a duplicate, no step changes the
\* solver (submitted, disallow, the pending letter, the random source) or asks it
\* for a letter, until a guess is accepted.
C9_RetryKeepsSolverState ==
  [][response.kind = "DuplicateGuess" =>
       /\ state' = state
       /\ returned' = returned]_vars

(* ------------------------------------------------------------------ *)
(* Properties of a game played by the client                           *)
(* ------------------------------------------------------------------ *)

\* C11: the masked word of a response is as long as the secret word, holds the
\* secret's letter where that letter is in correct and '*' elsewhere, and an
\* accepted guess leaves every revealed position of the previous masked word as
\* it was.
C11_MaskedWord ==
  /\ [](response.kind \in {"Create", "Update"} =>
          /\ Len(response.word) = Len(game.word)
          /\ \A i \in 1..Len(game.word) :
               response.word[i] =
                 IF game.word[i] \in game.correct THEN game.word[i] ELSE Ascii["*"])
  /\ [][(response' # response /\ response'.kind = "Update") =>
          /\ Len(response'.word) = Len(word)
          /\ \A i \in 1..Len(word) :
               word[i] # Ascii["*"] => response'.word[i] = word[i]]_vars

\* an update that reveals a letter beside one revealed before and leaves a
\* position hidden
C11_Witness ==
  /\ pc = "reply"
  /\ response.kind = "Update"
  /\ \E i, j, k \in 1..Len(word) :
       /\ word[i] # Ascii["*"]
       /\ word[j] = Ascii["*"] /\ response.word[j] # Ascii["*"]
       /\ response.word[k] = Ascii["*"]

\* C12: between calls the pending letter is None before the first call and the
\* letter of the latest call after it, and the letters returned so far are the
\* submitted letters and the pending one.
C12_PendingBookkeeping ==
  /\ state.uncharacterized = IF returned = <<>> THEN None ELSE Some(Latest)
  /\ {returned[i] : i \in 1..Len(returned)} =
       state.submitted \cup {state.uncharacterized[i] : i \in 1..Len(state.uncharacterized)}

\* after a third call: two letters are submitted and a third is pending
C12_Witness ==
  /\ Len(returned) >= 3
  /\ Cardinality(state.submitted) >= 2
  /\ state.uncharacterized # None
  /\ state.uncharacterized[1] \notin state.submitted

\* C13: in a game against the server no letter of disallow occurs in the secret
\* word, every letter of submitted outside disallow occurs in it, and disallow
\* is the part of the server's incorrect set that the solver has reconciled.
C13_LearnedAbsenceSound ==
  /\ state.disallow \cap Bytes(game.word) = {}
  /\ (state.submitted \ state.disallow) \subseteq Bytes(game.word)
  /\ state.disallow = game.incorrect \cap state.submitted

\* the secret word is an entry of the client's dictionary
SecretInDictionary == \E k \in 1..Len(dictionary) : dictionary[k] = game.word

\* C19: when the secret word is an entry of the client's dictionary, at every
\* call of next_letter the secret word passes the filter, the tie-break set is
\* not empty, the letter returned is in neither correct nor incorrect of the
\* server, and the server never answers DuplicateGuess.
C19_CandidateNeverLost ==
  SecretInDictionary =>
    /\ response.kind # "DuplicateGuess"
    /\ pc = "sent" =>
         /\ \E k \in 1..Len(filtered_dictionary) : filtered_dictionary[k] = game.word
         /\ first_rank # <<>>
         /\ Latest \notin game.correct \cup game.incorrect

\* a later call that has a revealed letter in its masked word and finds
\* several words
C19_Witness ==
  /\ SecretInDictionary
  /\ pc = "sent"
  /\ Len(returned) >= 2
  /\ game.correct # {}
  /\ Len(filtered_dictionary) >= 2

\* C20: a game whose secret word is in the client's dictionary reaches a
\* Finalize response; after it run has left its loop and the solver is not
\* asked again; and the solver is asked at most as many times as the secret
\* word has distinct letters, plus 7.
C20_GameTerminates ==
  /\ [](SecretInDictionary => <>(pc = "done"))
  /\ [](pc = "done" => response.kind = "Finalize")
  /\ [][pc = "done" => (pc' = "done" /\ returned' = returned /\ state' = state)]_vars
  /\ [](SecretInDictionary => Len(returned) <= Cardinality(Bytes(game.word)) + Guesses)

\* a game that ended after more than seven turns
C20_Witness ==
  /\ SecretInDictionary
  /\ pc = "done"
  /\ response.kind = "Finalize"
  /\ Len(returned) > Guesses

(* ------------------------------------------------------------------ *)
(* Properties of the server                                            *)
(* ------------------------------------------------------------------ *)

\* the games of the map
Stored == {id \in Ids : games[id] # None}

\* every letter of the word has been guessed; the wrong guesses are used up
Won(g) == Bytes(g.word) \subseteq g.correct
Lost(g) == Cardinality(g.incorrect) >= Guesses

\* bytes a and b are the same letter up to case
SameLetter(a, b) ==
  \/ a = b
  \/ \E c \in {<<"a", "A">>, <<"p", "P">>, <<"l", "L">>, <<"e", "E">>} :
       {a, b} = {Ascii[c[1]], Ascii[c[2]]}

\* the letters of a game's word, correct and incorrect that match byte a
Guessed(g, a) == {u \in g.correct \cup g.incorrect : SameLetter(a, u)}
InWord(g, a) == {u \in Bytes(g.word) : SameLetter(a, u)}

\* the field is one ASCII character
OneAsciiCharacter(letter) == Len(letter) = 1 /\ letter[1] < 128

\* the step handles update_game for id with a one-character letter
UpdateStep(id) ==
  /\ served'.op = "update_game"
  /\ served'.id = id
  /\ OneAsciiCharacter(served'.letter)
  /\ games[id] # None

\* the update_game of the step is an accepted guess: the game is unfinished and
\* the letter is new
AcceptedStep(id) ==
  /\ UpdateStep(id)
  /\ ~ Won(games[id]) /\ ~ Lost(games[id])
  /\ Guessed(games[id], served'.letter[1]) = {}

\* C14: guesses_remaining is 7 less the number of incorrect letters and never
\* negative; an accepted guess that occurs in the word is added to correct and
\* costs nothing, one that does not is added to incorrect and costs exactly one
\* guess; the game is lost exactly when incorrect holds 7 letters and won
\* exactly when every letter of the word is in correct.
C14_GuessAccounting ==
  /\ [](\A id \in Stored :
          /\ Cardinality(games[id].incorrect) <= Guesses
          /\ guesses_remaining_of(games[id]) = Guesses - Cardinality(games[id].incorrect)
          /\ is_lost(games[id]) <=> Cardinality(games[id].incorrect) = Guesses
          /\ is_won(games[id]) <=> Won(games[id]))
  /\ [][\A id \in Ids : AcceptedStep(id) =>
          LET g == games[id]
              h == games'[id]
              hit == InWord(g, served'.letter[1])
          IN /\ h.word = g.word
             /\ hit # {} =>
                  /\ h.correct = g.correct \cup hit /\ h.incorrect = g.incorrect
                  /\ guesses_remaining_of(h) = guesses_remaining_of(g)
             /\ hit = {} =>
                  /\ h.correct = g.correct
                  /\ Cardinality(h.incorrect) = Cardinality(g.incorrect) + 1
                  /\ h.incorrect \ g.incorrect = Guessed(h, served'.letter[1])
                  /\ guesses_remaining_of(h) = guesses_remaining_of(g) - 1
             /\ (response'.kind = "Finalize" /\ ~ response'.victory) <=> Lost(h)
             /\ (response'.kind = "Finalize" /\ response'.victory) <=> Won(h)
             /\ (~ Lost(h) /\ ~ Won(h)) =>
                  /\ response'.kind = "Update"
                  /\ response'.guesses = Guesses - Cardinality(h.incorrect)]_vars

\* the seventh wrong guess of a game that has a correct letter: the game is lost
C14_Witness ==
  /\ served.op = "update_game"
  /\ games[served.id] # None
  /\ response = lose(games[served.id].word, "Sorry, friend. You've been hanged!")
  /\ Cardinality(games[served.id].incorrect) = Guesses
  /\ games[served.id].correct # {}

\* C15: a game that is won or lost answers every update_game that carries one
\* ASCII character, guessed before or not, with Finalize, the same victory flag
\* and the whole word, and keeps correct and incorrect; read_game changes no game.
C15_FinishedIsAbsorbing ==
  /\ [][\A id \in Ids : (UpdateStep(id) /\ (Won(games[id]) \/ Lost(games[id]))) =>
          /\ response'.kind = "Finalize"
          /\ response'.victory = Won(games[id])
          /\ response'.word = games[id].word
          /\ games' = games]_vars
  /\ [][served'.op = "read_game" => games' = games]_vars

\* a lost game was sent a letter that is in neither of its sets
C15_Witness ==
  /\ served.op = "update_game"
  /\ OneAsciiCharacter(served.letter)
  /\ games[served.id] # None
  /\ Lost(games[served.id])
  /\ Guessed(games[served.id], served.letter[1]) = {}
  /\ response = lose(games[served.id].word, "Better luck next time!")

\* C16: update_game answers IllegalGuess when the guess is not one ASCII
\* character, whether the id is known or not; GameNotFound when the id is
\* unknown; DuplicateGuess when the game is unfinished and the letter is, up to
\* case, in correct or incorrect; and none of the three changes a game.
C16_Rejections ==
  [][served'.op = "update_game" =>
      LET id == served'.id
          letter == served'.letter
      IN /\ ~ OneAsciiCharacter(letter) =>
              response'.kind = "IllegalGuess" /\ games' = games
         /\ (OneAsciiCharacter(letter) /\ games[id] = None) =>
              response'.kind = "GameNotFound" /\ games' = games
         /\ (/\ OneAsciiCharacter(letter) /\ games[id] # None
             /\ ~ Won(games[id]) /\ ~ Lost(games[id])
             /\ Guessed(games[id], letter[1]) # {}) =>
              response'.kind = "DuplicateGuess" /\ games' = games]_vars

\* the lowercase form of a letter of correct was rejected as a duplicate while
\* the other id is unknown
C16_Witness ==
  /\ served.op = "update_game"
  /\ served.letter = Str(<<"a">>)
  /\ response.kind = "DuplicateGuess"
  /\ Ascii["A"] \in games[served.id].correct
  /\ Stored # Ids

(* ------------------------------------------------------------------ *)
(* Properties of the handlers run at the same time                     *)
(* ------------------------------------------------------------------ *)

\* the handlers that are between taking the lock and returning
UnderLock == {w \in Workers : workers[w].pc \in {"read", "write"}}

\* the step is the last one of the handler of worker w
Returns(w) == workers[w].pc = "write" /\ workers'[w].pc = "idle"

\* workers w and v carry update_game for the same game with the same letter
SameGuess(w, v) ==
  /\ workers[w].request.op = "update_game" /\ workers[v].request.op = "update_game"
  /\ workers[w].request.id = workers[v].request.id
  /\ OneAsciiCharacter(workers[w].request.letter)
  /\ OneAsciiCharacter(workers[v].request.letter)
  /\ SameLetter(workers[w].request.letter[1], workers[v].request.letter[1])

\* the response of a guess that was recorded
Recorded(result) ==
  \/ result.kind = "Update"
  \/ /\ result.kind = "Finalize"
     /\ result.message \in {"FLAWLESS VICTORY!", "Victory is yours!",
                            "Sorry, friend. You've been hanged!"}

C18_LegacyDuplicateGuess ==
  [][(/\ served'.op = "play_game"
      /\ games[served'.id] # None
      /\ ~ Won(games[served'.id]) /\ ~ Lost(games[served'.id])
      /\ Len(served'.letter) = 1
      /\ Guessed(games[served'.id], served'.letter[1]) # {}) =>
        /\ response' = Illegal("Your guesses must be unique.")
        /\ games' = games]_vars

(* ------------------------------------------------------------------ *)
(* Properties of the games the server stores                           *)
(* ------------------------------------------------------------------ *)

\* C21: in every game of the server correct and incorrect are disjoint, every
\* letter of correct occurs in the word, no letter of incorrect occurs in it,
\* and the game is not won and lost at once.
C21_GameStateInvariants ==
  \A id \in Stored :
    /\ games[id].correct \cap games[id].incorrect = {}
    /\ games[id].correct \subseteq Bytes(games[id].word)
    /\ games[id].incorrect \cap Bytes(games[id].word) = {}
    /\ ~ (is_won(games[id]) /\ is_lost(games[id]))

\* a game won with six wrong guesses made, beside a second game with a guess
C21_Witness ==
  /\ Stored = Ids
  /\ \E id \in Ids :
       /\ is_won(games[id])
       /\ Cardinality(games[id].incorrect) = Guesses - 1
  /\ \A id \in Ids : games[id].correct \cup games[id].incorrect # {}

====
